---- MODULE Spec2Model ----
(***************************************************************************)
(* Browser MCP server: the dynamic tool registry (src/tools/index.js),     *)
(* the line dispatcher (src/index.js), the browser connection manager      *)
(* (src/browser.js) and the CDP session cache (src/cdp.js).                *)
(***************************************************************************)
EXTENDS Integers, Sequences, FiniteSets, TLC

Range(s) == {s[i] : i \in DOMAIN s}


(***************************************************************************)
(* Bounds                                                                  *)
(***************************************************************************)
MaxRequests == 3
\* tool calls that use the browser, per run
MaxCalls == 4
\* browser connections made, per run
MaxGens == 2
\* page objects created, per run
MaxPageIds == 3
\* CDP sessions created, per run
MaxSessions == 3
\* tool calls of a run that starts without a browser handle
MaxConnects == 2
\* page-management calls of a run
MaxPageCalls == 3
\* termination signals delivered to the process
MaxSignals == 2
\* tool calls of a run that ends with a termination signal
MaxSignalCalls == 2
\* runs of updateRegistry on one active-module set
MaxRebuilds == 2
\* tool calls of a run on the debug-session cache
MaxSessionCalls == 2
\* browser_switch_page calls of a run
MaxSwitchCalls == 3

(***************************************************************************)
(* utils.js: the known-module table.  It is a plain object literal, so a   *)
(* lookup by key also finds the properties inherited from Object.prototype.*)
(***************************************************************************)
MODULE_MAPPING ==
    [network     |-> <<"network">>,
     performance |-> <<"performance">>,
     security    |-> <<"security">>,
     storage     |-> <<"storage">>,
     media       |-> <<"media">>,
     tabs        |-> <<"pages">>,
     extraction  |-> <<"info_opt">>,
     advanced    |-> <<"mouse", "keyboard", "console", "system",
                       "navigation_opt", "interaction_opt">>]

KnownModules == DOMAIN MODULE_MAPPING

\* Keys every object literal inherits (named here: the ones the inputs use).
ObjectPrototypeKeys == {"constructor", "toString", "hasOwnProperty"}

\* MODULE_MAPPING[name] as JavaScript evaluates it: an array of file names,
\* an inherited (truthy, non-array) value, or undefined.
LookupModule(name) ==
    IF name \in KnownModules THEN [kind |-> "array", files |-> MODULE_MAPPING[name]]
    ELSE IF name \in ObjectPrototypeKeys THEN [kind |-> "inherited", files |-> <<>>]
    ELSE [kind |-> "undefined", files |-> <<>>]

(***************************************************************************)
(* Tool declarations of the provider files                                 *)
(***************************************************************************)
CoreDefinitions(file) ==
    CASE file = "navigation"  -> <<"browser_navigate">>
      [] file = "interaction" -> <<"browser_action">>
      [] file = "info"        -> <<"browser_screenshot", "browser_evaluate">>
      [] file = "docs"        -> <<"browser_docs">>
      [] OTHER                -> <<>>

OptionalDefinitions(file) ==
    CASE file = "navigation"  -> <<"browser_reload", "browser_go_back", "browser_go_forward">>
      [] file = "interaction" -> <<"browser_select">>
      [] file = "info"        -> <<"browser_get_text", "browser_get_dom", "browser_read_page">>
      [] OTHER                -> <<>>

Definitions(file) ==
    CASE file = "network" ->
            <<"browser_net_start_monitoring", "browser_net_get_requests",
              "browser_net_stop_monitoring", "browser_net_export_har",
              "browser_net_get_websocket_frames", "browser_net_set_request_blocking",
              "browser_net_emulate_conditions">>
      [] file = "performance" ->
            <<"browser_perf_start_profile", "browser_perf_stop_profile",
              "browser_perf_take_heap_snapshot", "browser_perf_get_heap_usage",
              "browser_perf_get_metrics", "browser_perf_get_performance_metrics",
              "browser_perf_start_coverage", "browser_perf_stop_coverage">>
      [] file = "security" ->
            <<"browser_sec_get_security_headers", "browser_sec_get_certificate_info",
              "browser_sec_detect_mixed_content", "browser_sec_start_csp_monitoring",
              "browser_sec_get_csp_violations", "browser_sec_stop_csp_monitoring">>
      [] file = "storage" ->
            <<"browser_storage_get_indexeddb", "browser_storage_get_cache_storage",
              "browser_storage_delete_cache", "browser_storage_get_service_workers",
              "browser_storage_unregister_service_worker">>
      [] file = "media" ->
            <<"browser_get_media_summary", "browser_get_audio_analysis",
              "browser_control_media">>
      [] file = "pages" ->
            <<"browser_list_pages", "browser_new_page", "browser_switch_page",
              "browser_close_page">>
      [] file = "mouse" ->
            <<"browser_mouse_move", "browser_mouse_click", "browser_mouse_drag",
              "browser_mouse_wheel">>
      [] file = "keyboard" -> <<"browser_press_key">>
      [] file = "console" ->
            <<"browser_console_start", "browser_console_get", "browser_console_clear">>
      [] file = "system" ->
            <<"browser_health_check", "browser_wait", "browser_resize_window",
              "browser_wait_for_selector", "browser_start_video_recording",
              "browser_stop_video_recording">>
      [] OTHER -> <<>>

coreModules == <<"navigation", "interaction", "info", "docs">>

ManageTool == "browser_manage_modules"

(***************************************************************************)
(* Plugin directory: each entry is one .js file of plugins/.  A file whose *)
(* require throws is skipped.                                              *)
(***************************************************************************)
PluginHello  == [file |-> "hello.js",  ok |-> TRUE,  defs |-> <<"plugin_hello">>]
PluginBroken == [file |-> "broken.js", ok |-> FALSE, defs |-> <<>>]

PluginDirs == {<<>>, <<PluginBroken, PluginHello>>}

\* A plugin file that declares a tool under the name of a core tool.
PluginClash == [file |-> "clash.js", ok |-> TRUE, defs |-> <<"browser_navigate">>]

\* The plugin directories of the runs that only rebuild.
RebuildPluginDirs == PluginDirs \cup {<<PluginClash>>, <<PluginHello, PluginClash>>}

(***************************************************************************)
(* Registry rebuild                                                        *)
(***************************************************************************)
EmptyHandlers == [n \in {} |-> ""]

\* tools.push(...defs); Object.assign(handlers, hs): every tool of defs gets
\* a handler owned by `owner`, replacing an earlier one of the same name.
Merge(reg, defs, owner) ==
    [tools    |-> reg.tools \o defs,
     handlers |-> [n \in DOMAIN reg.handlers \cup Range(defs) |->
                      IF n \in Range(defs) THEN owner ELSE reg.handlers[n]]]

RECURSIVE LoadCore(_, _)
LoadCore(reg, files) ==
    IF files = <<>> THEN reg
    ELSE LoadCore(Merge(reg, CoreDefinitions(Head(files)), Head(files)), Tail(files))

\* f.endsWith('_opt') and f.replace('_opt', '.js') on the file names of the table:
\* "<base>_opt" contributes the optional part of the core file <base>.js,
\* any other name the standalone file of that name.
FileIsOpt(f) == f \in {"info_opt", "navigation_opt", "interaction_opt"}

BaseFile(f) ==
    CASE f = "info_opt"        -> "info"
      [] f = "navigation_opt"  -> "navigation"
      [] f = "interaction_opt" -> "interaction"
      [] OTHER                 -> f

FileDefinitions(f) ==
    IF FileIsOpt(f) THEN OptionalDefinitions(BaseFile(f)) ELSE Definitions(f)

RECURSIVE LoadFiles(_, _)
LoadFiles(reg, files) ==
    IF files = <<>> THEN reg
    ELSE LoadFiles(Merge(reg, FileDefinitions(Head(files)), Head(files)), Tail(files))

\* activeModules.forEach(...): an entry whose table value is not an array
\* throws (fileNames.forEach is not a function) and aborts the rebuild.
RECURSIVE LoadActive(_, _)
LoadActive(reg, mods) ==
    IF mods = <<>> THEN [reg |-> reg, threw |-> FALSE]
    ELSE LET v == LookupModule(Head(mods))
         IN  IF v.kind # "array" THEN [reg |-> reg, threw |-> TRUE]
             ELSE LoadActive(LoadFiles(reg, v.files), Tail(mods))

RECURSIVE LoadPlugins(_, _)
LoadPlugins(reg, ps) ==
    IF ps = <<>> THEN reg
    ELSE LoadPlugins(IF Head(ps).ok THEN Merge(reg, Head(ps).defs, Head(ps).file) ELSE reg,
                     Tail(ps))

BuildRegistry_ActiveReplaceCore(reg, active, dir) ==
    LET core   == IF active = <<>> THEN LoadCore(reg, coreModules) ELSE reg
        manage == Merge(core, <<ManageTool>>, "index")
        act    == LoadActive(manage, active)
    IN  [tools |-> act.reg.tools, handlers |-> act.reg.handlers, threw |-> act.threw]

\* The rebuild after its first two lines, on the registry they leave.
BuildRegistry(reg, active, dir) ==
    LET core   == LoadCore(reg, coreModules)
        manage == Merge(core, <<ManageTool>>, "index")
        act    == LoadActive(manage, active)
    IN  IF act.threw
        THEN [tools |-> act.reg.tools, handlers |-> act.reg.handlers, threw |-> TRUE]
        ELSE LET all == LoadPlugins(act.reg, dir)
             IN  [tools |-> all.tools, handlers |-> all.handlers, threw |-> FALSE]

\* The rebuild of the registry of module load: an empty list and an empty map.
updateRegistry(active, dir) ==
    BuildRegistry([tools |-> <<>>, handlers |-> EmptyHandlers], active, dir)

ClearRegistry_KeepPrior(reg) == reg

ClearRegistry_ToolsOnly(reg) == [tools |-> SubSeq(reg.tools, 1, 0), handlers |-> reg.handlers]

\* tools.length = 0; for (const key in handlers) delete handlers[key];
ClearRegistry(reg) ==
    [tools    |-> SubSeq(reg.tools, 1, 0),
     handlers |-> [n \in {k \in DOMAIN reg.handlers : FALSE} |-> reg.handlers[n]]]

\* updateRegistry() run on the derived state `prior`.
updateRegistryFrom(prior, active, dir) ==
    BuildRegistry(ClearRegistry(prior), active, dir)


(***************************************************************************)
(* handlers.browser_manage_modules                                         *)
(***************************************************************************)
\* The module statuses a result text reports (none but for the list action).
NoReport == [m \in {} |-> "Unloaded"]

Result(text) == [body |-> "result", isError |-> FALSE, text |-> text, report |-> NoReport]

\* The handler threw: executeTool turns the exception into an isError result.
Thrown(text) == [body |-> "result", isError |-> TRUE, text |-> text, report |-> NoReport]

\* The handler returned undefined: JSON.stringify drops the result key.
NoResult == [body |-> "none", isError |-> FALSE, text |-> "undefined", report |-> NoReport]

Remove(seq, x) == SelectSeq(seq, LAMBDA y : y # x)

\* st = [active, tools, handlers, rebuilds]; the outcome carries the new
\* registry state, the catalogs seen by each notifyCallback() call, and the
\* value the handler settles with.
Rebuilt(st, active, dir, text) ==
    LET r   == updateRegistryFrom([tools |-> st.tools, handlers |-> st.handlers],
                                  active, dir)
        st2 == [active |-> active, tools |-> r.tools, handlers |-> r.handlers,
                rebuilds |-> st.rebuilds + 1]
    IN  IF r.threw
        THEN [st |-> st2, notes |-> <<>>, res |-> Thrown("fileNames.forEach is not a function")]
        ELSE [st |-> st2, notes |-> <<r.tools>>, res |-> Result(text)]

ManageLoad_NoActiveCheck(st, m, dir) ==
    Rebuilt(st, IF m \in Range(st.active) THEN st.active ELSE Append(st.active, m),
            dir, "loaded")

ManageLoad(st, m, dir) ==
    IF m \in Range(st.active)
    THEN [st |-> st, notes |-> <<>>, res |-> Result("already loaded")]
    ELSE Rebuilt(st, Append(st.active, m), dir, "loaded")

ManageUnload(st, m, dir) ==
    IF m \notin Range(st.active)
    THEN [st |-> st, notes |-> <<>>, res |-> Result("not loaded")]
    ELSE Rebuilt(st, Remove(st.active, m), dir, "unloaded")

ListReport_ByFileName(active) ==
    [m \in KnownModules |->
        IF \E i \in DOMAIN MODULE_MAPPING[m] : MODULE_MAPPING[m][i] \in Range(active)
        THEN "Loaded" ELSE "Unloaded"]

\* Object.keys(MODULE_MAPPING).map(m => activeModules.has(m) ? Loaded : Unloaded)
ListReport(active) ==
    [m \in KnownModules |-> IF m \in Range(active) THEN "Loaded" ELSE "Unloaded"]

ManageModules(st, action, m, dir) ==
    IF action = "list"
    THEN [st |-> st, notes |-> <<>>,
          res |-> [Result("list") EXCEPT !.report = ListReport(st.active)]]
    ELSE IF m = ""
    THEN [st |-> st, notes |-> <<>>, res |-> Thrown("Module name is required")]
    ELSE IF LookupModule(m).kind = "undefined"
    THEN [st |-> st, notes |-> <<>>, res |-> Thrown("Unknown module")]
    ELSE IF action = "load" THEN ManageLoad(st, m, dir)
    ELSE IF action = "unload" THEN ManageUnload(st, m, dir)
    ELSE [st |-> st, notes |-> <<>>, res |-> NoResult]


(***************************************************************************)
(* State                                                                   *)
(***************************************************************************)
VARIABLES
    pluginsDir,     \* the .js files of plugins/ (fixed during a run)
    activeModules,  \* Set of module names, in insertion order
    tools,          \* the derived tool list
    handlers,       \* the derived handler map: tool name -> providing file
    rebuilds,       \* number of updateRegistry() runs so far
    received,       \* number of input lines handed to handleLine so far
    lines,          \* the method of each of these lines ("#unparsable": JSON.parse throws)
    tasks,          \* tools/call requests awaiting their handler's promise
    output,         \* the lines written to stdout, in order
    browser,        \* browser.js: cached handle [gen, mode], gen 0 = null
    context,        \* browser.js: cached context (its connection), 0 = null
    page,           \* browser.js: cached page object, 0 = null
    activePageIndex,\* browser.js: index of the active tab
    connected,      \* driver: the connections that are still alive
    hasContext,     \* driver: the connections whose contexts() is not empty
    ctxPages,       \* driver: context.pages() of every connection
    nextGen,        \* driver: next fresh connection
    nextPage,       \* driver: next fresh page object
    cdpSession,     \* cdp.js: cached session, 0 = null
    currentPage,    \* cdp.js: page the cached session was requested for
    sessions,       \* driver: every CDP session created: [page, status]
    cdpLog,         \* history: the getCDPSession calls that returned
    lastGet,        \* history: last returned session while the active page is unchanged
    proc            \* the process: running or exited, and the close() calls of cleanup

registryVars == <<activeModules, tools, handlers, rebuilds>>

browserVars == <<browser, context, page, activePageIndex>>

driverVars == <<connected, hasContext, ctxPages, nextGen, nextPage>>

cdpVars == <<cdpSession, currentPage, sessions>>

historyVars == <<cdpLog, lastGet>>

vars == <<pluginsDir, registryVars, received, lines, tasks, output,
          browserVars, driverVars, cdpVars, historyVars, proc>>

allBrowserVars == <<browserVars, driverVars, cdpVars, historyVars>>

Null == -1

\* The process after construction: no signal received, no close() called.
Started == [phase |-> "running", signals |-> 0, closing |-> {}, attempts |-> 0, failed |-> 0]

Running == proc.phase = "running"

(***************************************************************************)
(* Input lines                                                             *)
(***************************************************************************)
NoIndex == -1   \* args.index absent

Req(method, name, action, module) ==
    [method |-> method, name |-> name, action |-> action, module |-> module,
     index |-> NoIndex]

BrowserReq(name, index) ==
    [method |-> "tools/call", name |-> name, action |-> "", module |-> "",
     index |-> index]

\* One tools/call in flight: its request, where it is suspended (pc), the
\* values it holds across awaits, and the value its handler settled with.
Task(req, pc, res) ==
    [req |-> req, pc |-> pc, res |-> res, b |-> 0, exe |-> FALSE,
     ret |-> [ctx |-> 0, page |-> 0], old |-> 0, target |-> 0,
     prev |-> [session |-> 0, page |-> 0], seen |-> 0, did |-> {}]

ModuleInputs == {"media", "extraction", "constructor", "bogus"}

ManageRequests ==
    {Req("tools/call", ManageTool, a, m) : a \in {"load", "unload"}, m \in ModuleInputs \cup {""}}
    \cup {Req("tools/call", ManageTool, "list", ""), Req("tools/call", ManageTool, "toggle", "media")}

OtherRequests ==
    {Req("initialize", "", "", ""), Req("notifications/initialized", "", "", ""),
     Req("tools/list", "", "", ""), Req("resources/list", "", "", ""),
     Req("#unparsable", "", "", ""),
     Req("tools/call", "browser_docs", "", ""), Req("tools/call", "no_such_tool", "", ""),
     Req("tools/call", "constructor", "", "")}


(***************************************************************************)
(* Output lines                                                            *)
(***************************************************************************)
\* respond(id, result, error)
Response(id, res, catalog) ==
    [kind |-> "response", id |-> id, body |-> res.body, isError |-> res.isError,
     text |-> res.text, report |-> res.report, catalog |-> catalog, capabilities |-> {}]

\* capabilities: { tools: {} }: the members declared under capabilities.tools
ToolsCapability == {}

InitializeResponse(id) ==
    [Response(id, Result("initialize"), <<>>) EXCEPT !.capabilities = ToolsCapability]

ErrorResponse(id, message) ==
    [kind |-> "response", id |-> id, body |-> "error", isError |-> FALSE,
     text |-> message, catalog |-> <<>>]

\* notify('notifications/tools/list_changed'); id and catalog record the call
\* that caused the notification and the tool list at the time it was written.
Notification(cause, catalog) ==
    [kind |-> "notification", id |-> cause, body |-> "none", isError |-> FALSE,
     text |-> "notifications/tools/list_changed", catalog |-> catalog]

NoHandle == [gen |-> 0, mode |-> "none"]

NoGet == [session |-> 0, page |-> 0]

Gens == 1..MaxGens

InitBrowser ==
    /\ browser = NoHandle
    /\ context = 0
    /\ page = 0
    /\ activePageIndex = 0
    /\ connected = {}
    /\ hasContext = {}
    /\ ctxPages = [g \in Gens |-> <<>>]
    /\ nextGen = 1
    /\ nextPage = 1
    /\ cdpSession = 0
    /\ currentPage = 0
    /\ sessions = [i \in {} |-> 0]
    /\ cdpLog = <<>>
    /\ lastGet = NoGet

Init ==
    /\ pluginsDir \in PluginDirs
    /\ proc = Started
    /\ activeModules = <<>>
    /\ LET r == updateRegistry(<<>>, pluginsDir)
       IN  tools = r.tools /\ handlers = r.handlers
    /\ rebuilds = 1
    /\ received = 0
    /\ lines = <<>>
    /\ tasks = [i \in {} |-> 0]
    /\ output = <<>>
    /\ InitBrowser

(***************************************************************************)
(* handleLine: the synchronous part of handling one input line             *)
(***************************************************************************)
\* JSON.parse throws: request is undefined in the catch block.
HandleUnparsable_Silent ==
    /\ Running
    /\ received < MaxRequests
    /\ received' = received + 1
    /\ lines' = Append(lines, "#unparsable")
    /\ UNCHANGED <<pluginsDir, proc, registryVars, tasks, output, allBrowserVars>>

HandleUnparsable ==
    /\ Running
    /\ received < MaxRequests
    /\ received' = received + 1
    /\ lines' = Append(lines, "#unparsable")
    /\ output' = Append(output, ErrorResponse(Null, "parse error"))
    /\ UNCHANGED <<pluginsDir, proc, registryVars, tasks, allBrowserVars>>

HandleInitialize ==
    /\ Running
    /\ received < MaxRequests
    /\ received' = received + 1
    /\ lines' = Append(lines, "initialize")
    /\ output' = Append(output, InitializeResponse(received))
    /\ UNCHANGED <<pluginsDir, proc, registryVars, tasks, allBrowserVars>>

HandleInitialized ==
    /\ Running
    /\ received < MaxRequests
    /\ received' = received + 1
    /\ lines' = Append(lines, "notifications/initialized")
    /\ UNCHANGED <<pluginsDir, proc, registryVars, tasks, output, allBrowserVars>>

HandleToolsList ==
    /\ Running
    /\ received < MaxRequests
    /\ received' = received + 1
    /\ lines' = Append(lines, "tools/list")
    /\ output' = Append(output, Response(received, Result("tools"), tools))
    /\ UNCHANGED <<pluginsDir, proc, registryVars, tasks, allBrowserVars>>

HandleUnknownMethod ==
    /\ Running
    /\ received < MaxRequests
    /\ received' = received + 1
    /\ lines' = Append(lines, "resources/list")
    /\ output' = Append(output, ErrorResponse(received, "Method not found"))
    /\ UNCHANGED <<pluginsDir, proc, registryVars, tasks, allBrowserVars>>

\* tools/call of browser_manage_modules: the handler has no await, so it runs
\* to its return inside handleLine; the response waits for the promise.
HandleManageCall(req) ==
    /\ Running
    /\ received < MaxRequests
    /\ req \in ManageRequests
    /\ ManageTool \in DOMAIN handlers
    /\ LET st  == [active |-> activeModules, tools |-> tools, handlers |-> handlers,
                   rebuilds |-> rebuilds]
           out == ManageModules(st, req.action, req.module, pluginsDir)
       IN  /\ activeModules' = out.st.active
           /\ tools' = out.st.tools
           /\ handlers' = out.st.handlers
           /\ rebuilds' = out.st.rebuilds
           /\ output' = output \o [i \in 1..Len(out.notes) |-> Notification(received, out.notes[i])]
           /\ tasks' = [i \in DOMAIN tasks \cup {received} |->
                          IF i = received THEN Task(req, "respond", out.res) ELSE tasks[i]]
    /\ received' = received + 1
    /\ lines' = Append(lines, req.method)
    /\ UNCHANGED <<pluginsDir, proc, allBrowserVars>>

\* const handler = handlers[name]; if (!handler) throw ...; return await
\* handler(args), for the handlers that do not touch the state.  handlers is
\* an object literal: the lookup of "constructor" finds the function Object,
\* which returns its argument, and "toString" called without a receiver
\* returns a string; the other inherited functions throw a TypeError.
executeTool(hs, name) ==
    IF name \in DOMAIN hs THEN Result(name)
    ELSE IF name = "constructor" THEN Result("arguments")
    ELSE IF name = "toString" THEN Result("[object Undefined]")
    ELSE IF name \in ObjectPrototypeKeys THEN Thrown("TypeError")
    ELSE Thrown("Unknown tool")

\* tools/call of a tool that does not touch the registry (browser_docs), or
\* of a name without a registered handler.
HandleOtherCall(req) ==
    /\ Running
    /\ received < MaxRequests
    /\ req \in OtherRequests
    /\ req.method = "tools/call"
    /\ LET res == executeTool(handlers, req.name)
       IN  tasks' = [i \in DOMAIN tasks \cup {received} |->
                       IF i = received THEN Task(req, "respond", res) ELSE tasks[i]]
    /\ received' = received + 1
    /\ lines' = Append(lines, req.method)
    /\ UNCHANGED <<pluginsDir, proc, registryVars, output, allBrowserVars>>

\* handleToolCall resumes after `await this.executeTool(...)` and responds.
RespondToolCall(id) ==
    /\ Running
    /\ id \in DOMAIN tasks
    /\ tasks[id].pc = "respond"
    /\ output' = Append(output, Response(id, tasks[id].res, <<>>))
    /\ tasks' = [i \in DOMAIN tasks \ {id} |-> tasks[i]]
    /\ UNCHANGED <<pluginsDir, proc, registryVars, received, lines, allBrowserVars>>

\* const id = request?.id || null: a falsy id (0) becomes null.
CatchId(id) == IF id = 0 THEN Null ELSE id

\* initialize without params: request.params.protocolVersion throws a
\* TypeError inside handleInitialize, and the catch block of handleLine
\* responds.
HandleInitializeWithoutParams ==
    /\ Running
    /\ received < MaxRequests
    /\ received' = received + 1
    /\ lines' = Append(lines, "initialize")
    /\ output' = Append(output, ErrorResponse(CatchId(received), "TypeError"))
    /\ UNCHANGED <<pluginsDir, proc, registryVars, tasks, allBrowserVars>>

\* tools/call without params: request.params.name throws a TypeError inside
\* handleToolCall, whose promise rejects; handleLine is suspended at its
\* await until the rejection is delivered.
HandleToolCallWithoutParams ==
    /\ Running
    /\ received < MaxRequests
    /\ tasks' = [i \in DOMAIN tasks \cup {received} |->
                   IF i = received
                   THEN Task(Req("tools/call", "", "", ""), "catch", Thrown("TypeError"))
                   ELSE tasks[i]]
    /\ received' = received + 1
    /\ lines' = Append(lines, "tools/call")
    /\ UNCHANGED <<pluginsDir, proc, registryVars, output, allBrowserVars>>

\* handleLine resumes in its catch block and responds with the error.
CatchToolCall(id) ==
    /\ Running
    /\ id \in DOMAIN tasks
    /\ tasks[id].pc = "catch"
    /\ output' = Append(output, ErrorResponse(CatchId(id), "TypeError"))
    /\ tasks' = [i \in DOMAIN tasks \ {id} |-> tasks[i]]
    /\ UNCHANGED <<pluginsDir, proc, registryVars, received, lines, allBrowserVars>>

(***************************************************************************)
(* History: lastGet is forgotten as soon as the active page object changes *)
(***************************************************************************)
ActiveObject(ctx, api, pgs) ==
    IF ctx = 0 \/ pgs[ctx] = <<>> THEN 0
    ELSE pgs[ctx][(IF api >= Len(pgs[ctx]) THEN Len(pgs[ctx]) - 1 ELSE api) + 1]

TrackPage ==
    lastGet' = IF \/ page' # page
                  \/ ActiveObject(context', activePageIndex', ctxPages')
                        # ActiveObject(context, activePageIndex, ctxPages)
               THEN NoGet ELSE lastGet

(***************************************************************************)
(* browser.js: connectToBrowser                                            *)
(***************************************************************************)
\* browser.isConnected && browser.isConnected(): the handle of attach mode is
\* a Browser; the handle of launch mode is the persistent BrowserContext,
\* which has no isConnected.
Healthy_AlwaysConnected(b, conn) == b.mode = "attach"

Healthy(b, conn) == b.mode = "attach" /\ b.gen \in conn

Globals == [browser |-> browser, context |-> context, page |-> page, api |-> activePageIndex]

SetGlobals(G) ==
    /\ browser' = G.browser
    /\ context' = G.context
    /\ page' = G.page
    /\ activePageIndex' = G.api

Driver == [connected |-> connected, hasContext |-> hasContext, ctxPages |-> ctxPages]

Fail(t, msg) == [t EXCEPT !.pc = "respond", !.res = Thrown(msg)]

\* const pages = context.pages(); ... return { browser, context, page }
ResolvePage(G, D, t) ==
    LET pgs == D.ctxPages[G.context]
    IN  IF pgs = <<>>
        THEN [G |-> G, t |-> [t EXCEPT !.pc = "newPage", !.b = G.context]]
        ELSE LET idx == IF G.api >= Len(pgs) THEN Len(pgs) - 1 ELSE G.api
                 G2  == [G EXCEPT !.api = idx, !.page = pgs[idx + 1]]
             IN  [G |-> G2,
                  t |-> [t EXCEPT !.pc = "connected",
                                  !.ret = [ctx |-> G2.context, page |-> G2.page]]]

\* if (!context) { ... }  and what follows it
EnsureContext(G, D, t) ==
    IF G.context # 0 THEN ResolvePage(G, D, t)
    ELSE IF G.browser.mode = "launch"
    THEN [G |-> G, t |-> Fail(t, "browser.contexts is not a function")]
    ELSE IF G.browser.gen \in D.hasContext
    THEN ResolvePage([G EXCEPT !.context = G.browser.gen], D, t)
    ELSE [G |-> G, t |-> [t EXCEPT !.pc = "ctx", !.b = G.browser.gen]]

\* if (!browser) after the attach attempt: STRATEGY 2 or the common tail
AfterAttach(G, D, t, exe) ==
    IF G.browser.gen = 0
    THEN [G |-> G, t |-> [t EXCEPT !.pc = "launch", !.exe = exe]]
    ELSE EnsureContext(G, D, t)

\* The call of connectToBrowser up to its first await.
connectToBrowser(G, D, t) ==
    LET lost == G.browser.gen # 0 /\ ~Healthy(G.browser, D.connected)
        G1   == IF lost THEN [G EXCEPT !.browser = NoHandle, !.context = 0, !.page = 0]
                ELSE G
    IN  IF G1.browser.gen = 0
        THEN [G |-> G1, t |-> [t EXCEPT !.pc = "attach"]]
        ELSE EnsureContext(G1, D, t)

\* The call stays suspended at t.pc; or its handler has settled, and
\* handleToolCall writes the response (nothing else runs in between but
\* promise continuations, which do not touch the state read here).
Settle(id, t) ==
    IF t.pc = "respond"
    THEN /\ tasks' = [i \in DOMAIN tasks \ {id} |-> tasks[i]]
         /\ output' = Append(output, Response(id, t.res, <<>>))
    ELSE /\ tasks' = [i \in DOMAIN tasks \cup {id} |-> IF i = id THEN t ELSE tasks[i]]
         /\ output' = output

Apply(id, r) == SetGlobals(r.G) /\ Settle(id, r.t)

\* No call is resuming from an await on an already settled promise
\* (`await connectToBrowser()` that found its handle cached).  Such a call
\* resumes before the event loop delivers anything from the driver; only the
\* further lines of the chunk being read are handled before it.
EventLoopIdle == \A i \in DOMAIN tasks : tasks[i].pc # "connected"

FreshPages(n) == [i \in 1..n |-> nextPage + i - 1]

\* A new connection g with n existing tabs.
Connect(g, withContext, n) ==
    /\ nextGen <= MaxGens
    /\ g = nextGen
    /\ nextPage + n - 1 <= MaxPageIds
    /\ nextGen' = nextGen + 1
    /\ nextPage' = nextPage + n
    /\ connected' = connected \cup {g}
    /\ hasContext' = IF withContext THEN hasContext \cup {g} ELSE hasContext
    /\ ctxPages' = [ctxPages EXCEPT ![g] = FreshPages(n)]

DriverAfter == [connected |-> connected', hasContext |-> hasContext', ctxPages |-> ctxPages']

\* The tool that stands for the callers of getCDPSession: its handler is
\* `const cdp = await getCDPSession(); await cdp.send(...)`.
CdpTool == "browser_perf_get_heap_usage"

\* The modules whose tools the browser-side runs call.
SetupModules == <<"tabs", "performance">>

BrowserRequests ==
    {BrowserReq(CdpTool, NoIndex), BrowserReq("browser_close_page", 0)}
    \cup {BrowserReq("browser_switch_page", i) : i \in 0..1}

\* tools/call of a tool whose handler starts with `await connectToBrowser()`;
\* `limit` bounds the number of lines of the run.
BrowserCall(req, limit) ==
    /\ Running
    /\ received < limit
    /\ req.name \in DOMAIN handlers
    /\ Apply(received, connectToBrowser(Globals, Driver,
                        [Task(req, "start", Result("ok")) EXCEPT !.prev = lastGet,
                                                                 !.seen = Len(cdpLog)]))
    /\ received' = received + 1
    /\ lines' = Append(lines, req.method)
    /\ UNCHANGED <<pluginsDir, proc, registryVars, driverVars, cdpVars, cdpLog>>
    /\ TrackPage

HandleBrowserCall(req) ==
    /\ req \in BrowserRequests
    /\ BrowserCall(req, Len(SetupModules) + 1 + MaxCalls)

\* The calls of the page-management tools.
PageRequests ==
    {BrowserReq("browser_new_page", NoIndex), BrowserReq("browser_close_page", NoIndex)}
    \cup {BrowserReq("browser_close_page", i) : i \in 0..1}
    \cup {BrowserReq("browser_switch_page", i) : i \in 0..1}

HandlePageCall(req) ==
    /\ req \in PageRequests
    /\ BrowserCall(req, Len(SetupModules) + 1 + MaxPageCalls)

\* The calls of the runs that start without a browser handle.
ConnectRequests == {BrowserReq("browser_switch_page", 0), BrowserReq(CdpTool, NoIndex)}

HandleConnectCall(req) ==
    /\ req \in ConnectRequests
    /\ BrowserCall(req, Len(SetupModules) + MaxConnects)

\* browser = await pw.chromium.connectOverCDP(...) resolves
AttachSucceeds(id, withContext, n) ==
    /\ Running
    /\ id \in DOMAIN tasks
    /\ tasks[id].pc = "attach"
    /\ EventLoopIdle
    /\   /\ (~withContext) => n = 0
         /\ Connect(nextGen, withContext, n)
         /\ LET G == [Globals EXCEPT !.browser = [gen |-> nextGen, mode |-> "attach"]]
            IN  IF withContext
                THEN Apply(id, AfterAttach([G EXCEPT !.context = nextGen], DriverAfter, tasks[id], FALSE))
                ELSE Apply(id, [G |-> G, t |-> [tasks[id] EXCEPT !.pc = "attachCtx", !.b = nextGen]])
    /\ UNCHANGED <<pluginsDir, proc, registryVars, received, lines, cdpVars, cdpLog>>
    /\ TrackPage

\* connectOverCDP rejects: logged, then STRATEGY 2 unless a handle is cached
AttachFails(id) ==
    /\ Running
    /\ id \in DOMAIN tasks
    /\ tasks[id].pc = "attach"
    /\ EventLoopIdle
    /\ \E exe \in BOOLEAN : Apply(id, AfterAttach(Globals, Driver, tasks[id], exe))
    /\ UNCHANGED <<pluginsDir, proc, registryVars, received, lines, driverVars, cdpVars, cdpLog>>
    /\ TrackPage

\* context = await browser.newContext() inside the attach try block
AttachContext(id) ==
    /\ Running
    /\ id \in DOMAIN tasks
    /\ tasks[id].pc = "attachCtx"
    /\ EventLoopIdle
    /\ \/ /\ tasks[id].b \in connected
          /\ hasContext' = hasContext \cup {tasks[id].b}
          /\ Apply(id, AfterAttach([Globals EXCEPT !.context = tasks[id].b],
                                   [Driver EXCEPT !.hasContext = hasContext'], tasks[id], FALSE))
       \/ /\ hasContext' = hasContext
          /\ \E exe \in BOOLEAN : Apply(id, AfterAttach(Globals, Driver, tasks[id], exe))
    /\ UNCHANGED <<pluginsDir, proc, registryVars, received, lines, connected, ctxPages,
                   nextGen, nextPage, cdpVars, cdpLog>>
    /\ TrackPage

\* context = await pw.chromium.launchPersistentContext(...); browser = context
LaunchSucceeds(id) ==
    /\ Running
    /\ id \in DOMAIN tasks
    /\ tasks[id].pc = "launch"
    /\ EventLoopIdle
    /\ Connect(nextGen, TRUE, 1)
    /\ Apply(id, EnsureContext([Globals EXCEPT !.context = nextGen,
                                               !.browser = [gen |-> nextGen, mode |-> "launch"]],
                               DriverAfter, tasks[id]))
    /\ UNCHANGED <<pluginsDir, proc, registryVars, received, lines, cdpVars, cdpLog>>
    /\ TrackPage

\* launchPersistentContext rejects: the three-option message when no system
\* browser was found and the bundled one is missing, else the launch error.
LaunchFails(id) ==
    /\ Running
    /\ id \in DOMAIN tasks
    /\ tasks[id].pc = "launch"
    /\ EventLoopIdle
    /\ \E missing \in BOOLEAN :
         /\ missing => ~tasks[id].exe
         /\ Settle(id, Fail(tasks[id], IF ~tasks[id].exe /\ missing
                                        THEN "No Chrome/Chromium browser found"
                                        ELSE "launch error"))
    /\ UNCHANGED <<pluginsDir, proc, registryVars, received, lines, browserVars, driverVars,
                   cdpVars, cdpLog>>
    /\ TrackPage

\* context = await browser.newContext() (line 165)
NewContext(id) ==
    /\ Running
    /\ id \in DOMAIN tasks
    /\ tasks[id].pc = "ctx"
    /\ EventLoopIdle
    /\ \/ /\ tasks[id].b \in connected
          /\ hasContext' = hasContext \cup {tasks[id].b}
          /\ Apply(id, ResolvePage([Globals EXCEPT !.context = tasks[id].b],
                                   [Driver EXCEPT !.hasContext = hasContext'], tasks[id]))
       \/ /\ hasContext' = hasContext
          /\ Settle(id, Fail(tasks[id], "newContext failed"))
          /\ UNCHANGED browserVars
    /\ UNCHANGED <<pluginsDir, proc, registryVars, received, lines, connected, ctxPages,
                   nextGen, nextPage, cdpVars, cdpLog>>
    /\ TrackPage

\* page = await context.newPage(); activePageIndex = 0; return {...}
NewPage(id) ==
    /\ Running
    /\ id \in DOMAIN tasks
    /\ tasks[id].pc = "newPage"
    /\ EventLoopIdle
    /\ \/ /\ tasks[id].b \in connected
          /\ nextPage <= MaxPageIds
          /\ nextPage' = nextPage + 1
          /\ ctxPages' = [ctxPages EXCEPT ![tasks[id].b] = Append(@, nextPage)]
          /\ Apply(id, [G |-> [Globals EXCEPT !.page = nextPage, !.api = 0],
                        t |-> [tasks[id] EXCEPT !.pc = "connected",
                                                !.ret = [ctx |-> context, page |-> nextPage]]])
       \/ /\ Settle(id, Fail(tasks[id], "newPage failed"))
          /\ UNCHANGED <<browserVars, nextPage, ctxPages>>
    /\ UNCHANGED <<pluginsDir, proc, registryVars, received, lines, connected, hasContext,
                   nextGen, cdpVars, cdpLog>>
    /\ TrackPage

(***************************************************************************)
(* cdp.js: getCDPSession                                                   *)
(***************************************************************************)
\* if (!cdpSession || currentPage !== page)
NeedsNewSession(session, bound, pg) == session = 0 \/ bound # pg

PageAlive(pg) == \E g \in connected : pg \in Range(ctxPages[g])

\* History entry of a getCDPSession call that returned: the session and the
\* page it resolved, lastGet when it was called (prev) and when it returned
\* (last), how many calls had returned when it was called (seen), and what
\* it did to sessions on the way.
Returned(id, t, session) ==
    [id |-> id, session |-> session, page |-> t.ret.page, prev |-> t.prev,
     last |-> lastGet, seen |-> t.seen, did |-> t.did]

\* getCDPSession resumes with { page }: reuse the cached session, or start
\* replacing it (detach first when one is cached).
GetCDPSessionCheck(id) ==
    /\ Running
    /\ id \in DOMAIN tasks
    /\ tasks[id].pc = "connected"
    /\ tasks[id].req.name = CdpTool
    /\ LET t == tasks[id]
       IN  IF NeedsNewSession(cdpSession, currentPage, t.ret.page)
           THEN IF cdpSession # 0
                THEN /\ Settle(id, [t EXCEPT !.pc = "detach", !.old = cdpSession])
                     /\ UNCHANGED <<currentPage, cdpLog, lastGet>>
                ELSE /\ Settle(id, [t EXCEPT !.pc = "create"])
                     /\ currentPage' = t.ret.page
                     /\ UNCHANGED <<cdpLog, lastGet>>
           ELSE /\ Settle(id, [t EXCEPT !.pc = "respond"])
                /\ cdpLog' = Append(cdpLog, Returned(id, t, cdpSession))
                /\ lastGet' = [session |-> cdpSession, page |-> t.ret.page]
                /\ UNCHANGED currentPage
    /\ UNCHANGED <<pluginsDir, proc, registryVars, received, lines, browserVars, driverVars,
                   cdpSession, sessions>>

DetachOld_ThrowsRejection(id) ==
    /\ Running
    /\ id \in DOMAIN tasks
    /\ tasks[id].pc = "detach"
    /\ EventLoopIdle
    /\ LET t == tasks[id]
       IN  IF sessions[t.old].status = "live"
           THEN /\ sessions' = [sessions EXCEPT ![t.old].status = "detached"]
                /\ currentPage' = t.ret.page
                /\ Settle(id, [t EXCEPT !.pc = "create", !.did = @ \cup {"detach"}])
           ELSE /\ Settle(id, Fail(t, "detach failed"))
                /\ UNCHANGED <<sessions, currentPage>>
    /\ UNCHANGED <<pluginsDir, proc, registryVars, received, lines, browserVars, driverVars,
                   cdpSession, historyVars>>

\* await cdpSession.detach() settles (a rejection is logged), then
\* currentPage = page and newCDPSession(page) is requested.
DetachOld(id) ==
    /\ Running
    /\ id \in DOMAIN tasks
    /\ tasks[id].pc = "detach"
    /\ EventLoopIdle
    /\ LET t == tasks[id]
       IN  /\ sessions' = IF sessions[t.old].status = "live"
                          THEN [sessions EXCEPT ![t.old].status = "detached"]
                          ELSE sessions
           /\ currentPage' = t.ret.page
           /\ Settle(id, [t EXCEPT !.pc = "create", !.did = @ \cup {"detach"}])
    /\ UNCHANGED <<pluginsDir, proc, registryVars, received, lines, browserVars, driverVars,
                   cdpSession, historyVars>>

\* cdpSession = await page.context().newCDPSession(page); return cdpSession
CreateSession(id) ==
    /\ Running
    /\ id \in DOMAIN tasks
    /\ tasks[id].pc = "create"
    /\ EventLoopIdle
    /\ LET t   == tasks[id]
           sid == Cardinality(DOMAIN sessions) + 1
       IN  \/ /\ PageAlive(t.ret.page)
              /\ sid <= MaxSessions
              /\ sessions' = [i \in DOMAIN sessions \cup {sid} |->
                                IF i = sid THEN [page |-> t.ret.page, status |-> "live"]
                                ELSE sessions[i]]
              /\ cdpSession' = sid
              /\ cdpLog' = Append(cdpLog, Returned(id, [t EXCEPT !.did = @ \cup {"create"}], sid))
              /\ lastGet' = [session |-> sid, page |-> t.ret.page]
              /\ Settle(id, [t EXCEPT !.pc = "respond", !.did = @ \cup {"create"}])
           \/ /\ Settle(id, Fail(t, "newCDPSession failed"))
              /\ UNCHANGED <<sessions, cdpSession, historyVars>>
    /\ UNCHANGED <<pluginsDir, proc, registryVars, received, lines, browserVars, driverVars,
                   currentPage>>

ResetCDPSession_DetachFirst ==
    /\ Running
    /\ EventLoopIdle
    /\ cdpSession' = 0
    /\ currentPage' = 0
    /\ sessions' = IF cdpSession # 0 /\ sessions[cdpSession].status = "live"
                   THEN [sessions EXCEPT ![cdpSession].status = "detached"]
                   ELSE sessions
    /\ UNCHANGED <<pluginsDir, proc, registryVars, received, lines, tasks, output,
                   browserVars, driverVars, historyVars>>

\* resetCDPSession(): cdpSession = null; currentPage = null
ResetCDPSession ==
    /\ Running
    /\ EventLoopIdle
    /\ cdpSession' = 0
    /\ currentPage' = 0
    /\ UNCHANGED <<pluginsDir, proc, registryVars, received, lines, tasks, output,
                   browserVars, driverVars, sessions, historyVars>>

(***************************************************************************)
(* tools/pages.js                                                          *)
(***************************************************************************)
\* browser_switch_page after `await connectToBrowser()`
SwitchPage(id) ==
    /\ Running
    /\ id \in DOMAIN tasks
    /\ tasks[id].pc = "connected"
    /\ tasks[id].req.name = "browser_switch_page"
    /\ LET t == tasks[id]
           n == IF t.ret.ctx = 0 THEN -1 ELSE Len(ctxPages[t.ret.ctx])
       IN  IF n = -1
           THEN /\ Settle(id, Fail(t, "TypeError")) /\ UNCHANGED activePageIndex
           ELSE IF t.req.index < 0 \/ t.req.index >= n
           THEN /\ Settle(id, Fail(t, "Invalid page index")) /\ UNCHANGED activePageIndex
           ELSE /\ activePageIndex' = t.req.index
                /\ Settle(id, [t EXCEPT !.pc = "fronting",
                                         !.target = ctxPages[t.ret.ctx][t.req.index + 1]])
    /\ UNCHANGED <<pluginsDir, proc, registryVars, received, lines, browser, context, page,
                   driverVars, cdpVars, cdpLog>>
    /\ TrackPage

BroughtToFront_RejectionThrown(id) ==
    /\ Running
    /\ id \in DOMAIN tasks
    /\ tasks[id].pc = "fronting"
    /\ EventLoopIdle
    /\ LET t == tasks[id]
       IN  \/ /\ PageAlive(t.target)
              /\ Settle(id, [t EXCEPT !.pc = "respond"])
           \/ Settle(id, Fail(t, "bringToFront failed"))
    /\ UNCHANGED <<pluginsDir, proc, registryVars, received, lines, browserVars, driverVars,
                   cdpVars, historyVars>>

\* try { await allPages[args.index].bringToFront() } catch (e) { } settles:
\* resolved only when the page still exists, rejected at the driver's will;
\* either way the handler returns its text.
BroughtToFront(id) ==
    /\ Running
    /\ id \in DOMAIN tasks
    /\ tasks[id].pc = "fronting"
    /\ EventLoopIdle
    /\ \E ok \in BOOLEAN :
         /\ ok => PageAlive(tasks[id].target)
         /\ Settle(id, [tasks[id] EXCEPT !.pc = "respond"])
    /\ UNCHANGED <<pluginsDir, proc, registryVars, received, lines, browserVars, driverVars,
                   cdpVars, historyVars>>

\* browser_new_page after `await connectToBrowser()`: context.newPage() is requested
OpenNewPage(id) ==
    /\ Running
    /\ id \in DOMAIN tasks
    /\ tasks[id].pc = "connected"
    /\ tasks[id].req.name = "browser_new_page"
    /\ LET t == tasks[id]
       IN  IF t.ret.ctx = 0 THEN Settle(id, Fail(t, "TypeError"))
           ELSE Settle(id, [t EXCEPT !.pc = "opening", !.b = t.ret.ctx])
    /\ UNCHANGED <<pluginsDir, proc, registryVars, received, lines, browserVars, driverVars,
                   cdpVars, historyVars>>

\* await context.newPage() settles; setActivePageIndex(pages.length - 1)
NewPageOpened(id) ==
    /\ Running
    /\ id \in DOMAIN tasks
    /\ tasks[id].pc = "opening"
    /\ EventLoopIdle
    /\ LET t == tasks[id]
       IN  \/ /\ t.b \in connected
              /\ nextPage <= MaxPageIds
              /\ nextPage' = nextPage + 1
              /\ ctxPages' = [ctxPages EXCEPT ![t.b] = Append(@, nextPage)]
              /\ activePageIndex' = Len(ctxPages[t.b])
              /\ Settle(id, [t EXCEPT !.pc = "respond"])
           \/ /\ Settle(id, Fail(t, "newPage failed"))
              /\ UNCHANGED <<nextPage, ctxPages, activePageIndex>>
    /\ UNCHANGED <<pluginsDir, proc, registryVars, received, lines, browser, context, page,
                   connected, hasContext, nextGen, cdpVars, cdpLog>>
    /\ TrackPage

\* browser_close_page after `await connectToBrowser()`.  connectToBrowser
\* returns { browser, context, page }: the destructured activePageIndex is
\* undefined, so without args.index closeIdx is undefined.
ClosePageStart(id) ==
    /\ Running
    /\ id \in DOMAIN tasks
    /\ tasks[id].pc = "connected"
    /\ tasks[id].req.name = "browser_close_page"
    /\ LET t   == tasks[id]
           pgs == IF t.ret.ctx = 0 THEN <<>> ELSE ctxPages[t.ret.ctx]
       IN  IF t.ret.ctx = 0 \/ t.req.index = NoIndex
           THEN Settle(id, Fail(t, "TypeError"))
           ELSE IF t.req.index < 0 \/ t.req.index >= Len(pgs)
           THEN Settle(id, Fail(t, "Invalid page index"))
           ELSE Settle(id, [t EXCEPT !.pc = "closing", !.b = t.ret.ctx,
                                      !.target = pgs[t.req.index + 1]])
    /\ UNCHANGED <<pluginsDir, proc, registryVars, received, lines, browserVars, driverVars,
                   cdpVars, historyVars>>

CloseSessionsOn(pgs) ==
    [i \in DOMAIN sessions |->
        IF sessions[i].page \in pgs /\ sessions[i].status = "live"
        THEN [sessions[i] EXCEPT !.status = "closed"] ELSE sessions[i]]

\* await targetPages[closeIdx].close() settles; the clamp compares undefined
\* with the page count and never fires.
PageClosed(id) ==
    /\ Running
    /\ id \in DOMAIN tasks
    /\ tasks[id].pc = "closing"
    /\ EventLoopIdle
    /\ LET t == tasks[id]
       IN  /\ ctxPages' = [ctxPages EXCEPT ![t.b] = Remove(@, t.target)]
           /\ sessions' = CloseSessionsOn({t.target})
           /\ Settle(id, [t EXCEPT !.pc = "respond"])
    /\ UNCHANGED <<pluginsDir, proc, registryVars, received, lines, browserVars, connected,
                   hasContext, nextGen, nextPage, cdpSession, currentPage, cdpLog>>
    /\ TrackPage

(***************************************************************************)
(* The driver: a connection is lost (browser closed or crashed)            *)
(***************************************************************************)
Disconnect(g) ==
    /\ Running
    /\ g \in connected
    /\ EventLoopIdle
    /\ connected' = connected \ {g}
    /\ ctxPages' = [ctxPages EXCEPT ![g] = <<>>]
    /\ sessions' = CloseSessionsOn(Range(ctxPages[g]))
    /\ UNCHANGED <<pluginsDir, proc, registryVars, received, lines, tasks, output, browserVars,
                   hasContext, nextGen, nextPage, cdpSession, currentPage, cdpLog>>
    /\ TrackPage

(***************************************************************************)
(* Termination: process.on('SIGTERM' / 'SIGINT', () => this.cleanup())     *)
(***************************************************************************)
Signal_ExitsAtOnce ==
    /\ Running
    /\ EventLoopIdle
    /\ proc.signals < MaxSignals
    /\ proc' = [proc EXCEPT !.signals = @ + 1, !.phase = "exited"]
    /\ UNCHANGED <<pluginsDir, registryVars, received, lines, tasks, output,
                   allBrowserVars>>

\* cleanup() up to its await: browser.close() is called on the cached handle;
\* without a handle process.exit(0) is reached at once.
Signal ==
    /\ Running
    /\ EventLoopIdle
    /\ proc.signals < MaxSignals
    /\ proc' = IF browser.gen # 0
               THEN [proc EXCEPT !.signals = @ + 1, !.attempts = @ + 1,
                                 !.closing = @ \cup {browser.gen}]
               ELSE [proc EXCEPT !.signals = @ + 1, !.phase = "exited"]
    /\ UNCHANGED <<pluginsDir, registryVars, received, lines, tasks, output,
                   allBrowserVars>>

\* await browser.close().catch(() => { }) settles, with the connection
\* closed or with a rejection that is dropped; process.exit(0).
CloseSettles(g) ==
    /\ Running
    /\ EventLoopIdle
    /\ g \in proc.closing
    /\ \E ok \in BOOLEAN :
         /\ proc' = [proc EXCEPT !.phase = "exited", !.closing = @ \ {g},
                                 !.failed = IF ok THEN @ ELSE @ + 1]
         /\ IF ok
            THEN /\ connected' = connected \ {g}
                 /\ ctxPages' = [ctxPages EXCEPT ![g] = <<>>]
                 /\ sessions' = CloseSessionsOn(Range(ctxPages[g]))
            ELSE UNCHANGED <<connected, ctxPages, sessions>>
    /\ UNCHANGED <<pluginsDir, registryVars, received, lines, tasks, output,
                   browserVars, hasContext, nextGen, nextPage, cdpSession,
                   currentPage, cdpLog>>
    /\ TrackPage

\* The dispatcher with every kind of input line; of the module-management
\* calls, the ones on one module.
DispatchManageRequests ==
    {Req("tools/call", ManageTool, a, "media") : a \in {"load", "unload", "toggle"}}
    \cup {Req("tools/call", ManageTool, "list", "")}

Next ==
    \/ HandleUnparsable
    \/ HandleInitialize
    \/ HandleInitialized
    \/ HandleToolsList
    \/ HandleUnknownMethod
    \/ \E req \in DispatchManageRequests : HandleManageCall(req)
    \/ \E req \in OtherRequests : HandleOtherCall(req)
    \/ \E id \in 0..(MaxRequests - 1) : RespondToolCall(id)
    \/ HandleInitializeWithoutParams
    \/ HandleToolCallWithoutParams
    \/ \E id \in 0..(MaxRequests - 1) : CatchToolCall(id)

Spec == Init /\ [][Next]_vars

\* The registry under every module-management call, with tools/list in
\* between.
NextRegistry ==
    \/ HandleToolsList
    \/ \E req \in ManageRequests : HandleManageCall(req)
    \/ \E id \in 0..(MaxRequests - 1) : RespondToolCall(id)

SpecRegistry == Init /\ [][NextRegistry]_vars

\* The module-management calls of the runs checked for progress.
LiveManageRequests ==
    {Req("tools/call", ManageTool, "load", "media"), Req("tools/call", ManageTool, "list", "")}

(***************************************************************************)
(* updateRegistry as a function of the derived state it finds: the runs    *)
(* start from a tool list and a handler map left by anything, with a fixed *)
(* active-module set, and rebuild.                                         *)
(***************************************************************************)
PriorTools ==
    {<<>>, <<"stale_tool">>, <<"browser_navigate", ManageTool>>,
     <<"browser_get_media_summary", "browser_get_media_summary">>}

PriorHandlers ==
    {EmptyHandlers, [n \in {"stale_tool"} |-> "stale"],
     [n \in {"browser_navigate", "browser_control_media"} |-> "media"]}

ActiveSets ==
    {<<>>, <<"media">>, <<"extraction", "media">>, <<"media", "extraction">>,
     <<"constructor">>, <<"media", "constructor">>}

InitRebuild ==
    /\ pluginsDir \in RebuildPluginDirs
    /\ proc = Started
    /\ activeModules \in ActiveSets
    /\ tools \in PriorTools
    /\ handlers \in PriorHandlers
    /\ rebuilds = 0
    /\ received = 0
    /\ lines = <<>>
    /\ tasks = [i \in {} |-> 0]
    /\ output = <<>>
    /\ InitBrowser

RunUpdateRegistry ==
    /\ rebuilds < MaxRebuilds
    /\ LET r == updateRegistryFrom([tools |-> tools, handlers |-> handlers],
                                   activeModules, pluginsDir)
       IN  tools' = r.tools /\ handlers' = r.handlers
    /\ rebuilds' = rebuilds + 1
    /\ UNCHANGED <<pluginsDir, proc, activeModules, received, lines, tasks, output,
                   allBrowserVars>>

NextRebuild == RunUpdateRegistry

SpecRebuild == InitRebuild /\ [][NextRebuild]_vars

\* The dispatcher with its scheduling: once the promise of executeTool has
\* settled, the continuation of handleToolCall runs and writes the response.
NextLive ==
    \/ HandleUnparsable
    \/ HandleInitialize
    \/ HandleToolsList
    \/ HandleUnknownMethod
    \/ \E req \in LiveManageRequests : HandleManageCall(req)
    \/ \E req \in OtherRequests : HandleOtherCall(req)
    \/ \E id \in 0..(MaxRequests - 1) : RespondToolCall(id)

SpecLive ==
    /\ Init
    /\ [][NextLive]_vars
    /\ \A id \in 0..(MaxRequests - 1) : WF_vars(RespondToolCall(id))


(***************************************************************************)
(* The browser side of the server, started from the state in which the     *)
(* tabs and performance modules have been loaded by the first two requests.    *)
(***************************************************************************)

RECURSIVE SetupOutput(_)
SetupOutput(n) ==
    IF n = 0 THEN <<>>
    ELSE SetupOutput(n - 1) \o
         <<Notification(n - 1, updateRegistry(SubSeq(SetupModules, 1, n), <<>>).tools),
           Response(n - 1, Result("loaded"), <<>>)>>

\* The state after the two loads and one completed call of the CDP tool
\* that attached to an external browser with n tabs.
WarmLines == Len(SetupModules) + 1

InitCDP ==
    /\ pluginsDir = <<>>
    /\ proc = Started
    /\ activeModules = SetupModules
    /\ LET r == updateRegistry(SetupModules, <<>>)
       IN  tools = r.tools /\ handlers = r.handlers
    /\ rebuilds = 1 + Len(SetupModules)
    /\ received = WarmLines
    /\ lines = [i \in 1..WarmLines |-> "tools/call"]
    /\ tasks = [i \in {} |-> 0]
    /\ output = Append(SetupOutput(Len(SetupModules)),
                       Response(Len(SetupModules), Result("ok"), <<>>))
    /\ \E n \in 1..2 :
         /\ ctxPages = [g \in Gens |-> IF g = 1 THEN [i \in 1..n |-> i] ELSE <<>>]
         /\ nextPage = n + 1
    /\ browser = [gen |-> 1, mode |-> "attach"]
    /\ context = 1
    /\ page = 1
    /\ activePageIndex = 0
    /\ connected = {1}
    /\ hasContext = {1}
    /\ nextGen = 2
    /\ cdpSession = 1
    /\ currentPage = 1
    /\ sessions = [i \in {1} |-> [page |-> 1, status |-> "live"]]
    /\ cdpLog = <<[id |-> Len(SetupModules), session |-> 1, page |-> 1, prev |-> NoGet,
                   last |-> NoGet, seen |-> 0, did |-> {"create"}]>>
    /\ lastGet = [session |-> 1, page |-> 1]

CallIds == WarmLines..(WarmLines + MaxCalls - 1)

\* The runs with an external browser listening on the debugging port: the
\* attach succeeds and finds a context with one or two tabs.
NextCDP ==
    \/ \E req \in BrowserRequests : HandleBrowserCall(req)
    \/ \E id \in CallIds, n \in 1..2 : AttachSucceeds(id, TRUE, n)
    \/ \E id \in CallIds : NewPage(id)
    \/ \E id \in CallIds : GetCDPSessionCheck(id)
    \/ \E id \in CallIds : DetachOld(id)
    \/ \E id \in CallIds : CreateSession(id)
    \/ \E id \in CallIds : SwitchPage(id)
    \/ \E id \in CallIds : BroughtToFront(id)
    \/ \E id \in CallIds : ClosePageStart(id)
    \/ \E id \in CallIds : PageClosed(id)
    \/ \E g \in Gens : Disconnect(g)

SpecCDP == InitCDP /\ [][NextCDP]_vars


(***************************************************************************)
(* Page management: the runs of browser_new_page, browser_switch_page and  *)
(* browser_close_page on a browser that is already attached.               *)
(***************************************************************************)
PageIds == WarmLines..(WarmLines + MaxPageCalls - 1)

NextPages ==
    \/ \E req \in PageRequests : HandlePageCall(req)
    \/ \E id \in PageIds, n \in 1..2 : AttachSucceeds(id, TRUE, n)
    \/ \E id \in PageIds : SwitchPage(id)
    \/ \E id \in PageIds : BroughtToFront(id)
    \/ \E id \in PageIds : OpenNewPage(id)
    \/ \E id \in PageIds : NewPageOpened(id)
    \/ \E id \in PageIds : ClosePageStart(id)
    \/ \E id \in PageIds : PageClosed(id)
    \/ \E g \in Gens : Disconnect(g)

SpecPages == InitCDP /\ [][NextPages]_vars


(***************************************************************************)
(* The debug-session cache: calls of the CDP tool and of browser_switch_page*)
(* on an attached browser, with resetCDPSession called by its users.       *)
(***************************************************************************)
SessionRequests ==
    {BrowserReq(CdpTool, NoIndex)} \cup {BrowserReq("browser_switch_page", i) : i \in 0..1}

HandleSessionCall(req) ==
    /\ req \in SessionRequests
    /\ BrowserCall(req, WarmLines + MaxSessionCalls)

SessionIds == WarmLines..(WarmLines + MaxSessionCalls - 1)

NextSession ==
    \/ \E req \in SessionRequests : HandleSessionCall(req)
    \/ \E id \in SessionIds, n \in 1..2 : AttachSucceeds(id, TRUE, n)
    \/ \E id \in SessionIds : GetCDPSessionCheck(id)
    \/ \E id \in SessionIds : DetachOld(id)
    \/ \E id \in SessionIds : CreateSession(id)
    \/ \E id \in SessionIds : SwitchPage(id)
    \/ \E id \in SessionIds : BroughtToFront(id)
    \/ \E g \in Gens : Disconnect(g)
    \/ ResetCDPSession

SpecSession == InitCDP /\ [][NextSession]_vars


(***************************************************************************)
(* browser_switch_page with indexes inside and outside the page range, on  *)
(* a browser whose tabs and connection come and go.                        *)
(***************************************************************************)
SwitchIndexes == {-2, 0, 1, MaxPageIds}

SwitchRequests == {BrowserReq("browser_switch_page", i) : i \in SwitchIndexes}

HandleSwitchCall(req) ==
    /\ req \in SwitchRequests
    /\ BrowserCall(req, WarmLines + MaxSwitchCalls)

SwitchIds == WarmLines..(WarmLines + MaxSwitchCalls - 1)

NextSwitch ==
    \/ \E req \in SwitchRequests : HandleSwitchCall(req)
    \/ \E id \in SwitchIds, n \in 1..2 : AttachSucceeds(id, TRUE, n)
    \/ \E id \in SwitchIds : SwitchPage(id)
    \/ \E id \in SwitchIds : BroughtToFront(id)
    \/ \E g \in Gens : Disconnect(g)

SpecSwitch == InitCDP /\ [][NextSwitch]_vars


(***************************************************************************)
(* Acquiring the browser: the runs that start with no handle cached, after *)
(* the tabs and performance modules have been loaded.  The driver decides  *)
(* whether a browser listens on the debugging port, whether it has a       *)
(* context and tabs, whether an executable is found and whether the launch *)
(* succeeds.                                                               *)
(***************************************************************************)
InitConnect ==
    /\ pluginsDir = <<>>
    /\ proc = Started
    /\ activeModules = SetupModules
    /\ LET r == updateRegistry(SetupModules, <<>>)
       IN  tools = r.tools /\ handlers = r.handlers
    /\ rebuilds = 1 + Len(SetupModules)
    /\ received = Len(SetupModules)
    /\ lines = [i \in 1..Len(SetupModules) |-> "tools/call"]
    /\ tasks = [i \in {} |-> 0]
    /\ output = SetupOutput(Len(SetupModules))
    /\ InitBrowser

ConnectIds == Len(SetupModules)..(Len(SetupModules) + MaxConnects - 1)

NextConnect ==
    \/ \E req \in ConnectRequests : HandleConnectCall(req)
    \/ \E id \in ConnectIds, withContext \in BOOLEAN, n \in 0..2 : AttachSucceeds(id, withContext, n)
    \/ \E id \in ConnectIds : AttachFails(id)
    \/ \E id \in ConnectIds : AttachContext(id)
    \/ \E id \in ConnectIds : LaunchSucceeds(id)
    \/ \E id \in ConnectIds : LaunchFails(id)
    \/ \E id \in ConnectIds : NewContext(id)
    \/ \E id \in ConnectIds : NewPage(id)
    \/ \E id \in ConnectIds : SwitchPage(id)
    \/ \E id \in ConnectIds : BroughtToFront(id)
    \/ \E id \in ConnectIds : GetCDPSessionCheck(id)
    \/ \E id \in ConnectIds : DetachOld(id)
    \/ \E id \in ConnectIds : CreateSession(id)
    \/ \E g \in Gens : Disconnect(g)

SpecConnect == InitConnect /\ [][NextConnect]_vars


(***************************************************************************)
(* Termination: tool calls that attach to a browser or launch one, and the *)
(* signals that end the process.  A close() that was called settles.       *)
(***************************************************************************)
SignalRequests == {BrowserReq("browser_switch_page", 0)}

HandleSignalCall(req) ==
    /\ req \in SignalRequests
    /\ BrowserCall(req, Len(SetupModules) + MaxSignalCalls)

SignalIds == Len(SetupModules)..(Len(SetupModules) + MaxSignalCalls - 1)

NextSignal ==
    \/ \E req \in SignalRequests : HandleSignalCall(req)
    \/ \E id \in SignalIds : AttachSucceeds(id, TRUE, 1)
    \/ \E id \in SignalIds : AttachFails(id)
    \/ \E id \in SignalIds : LaunchSucceeds(id)
    \/ \E id \in SignalIds : LaunchFails(id)
    \/ \E id \in SignalIds : SwitchPage(id)
    \/ \E id \in SignalIds : BroughtToFront(id)
    \/ \E g \in Gens : Disconnect(g)
    \/ Signal
    \/ \E g \in Gens : CloseSettles(g)

SpecSignal ==
    /\ InitConnect
    /\ [][NextSignal]_vars
    /\ \A g \in Gens : WF_vars(CloseSettles(g))
    /\ \A id \in SignalIds : WF_vars(SwitchPage(id))


(***************************************************************************)
(* Properties of the CDP session cache                                     *)
(***************************************************************************)
LiveSessions == {i \in DOMAIN sessions : sessions[i].status = "live"}

\* A returned call that follows an earlier returned call, both made on the
\* same page object, with the active page unchanged from before the later
\* call was made until it returned.
Consecutive(e) == e.prev # NoGet /\ e.last = e.prev /\ e.page = e.prev.page

\* C8: two consecutive getCDPSession calls with no change of the active page
\* object in between return the identical session, and the second call
\* neither detaches nor creates a session.
C8_SameSessionWhilePageUnchanged ==
    \A i \in DOMAIN cdpLog :
        Consecutive(cdpLog[i]) =>
            /\ cdpLog[i].session = cdpLog[i].prev.session
            /\ cdpLog[i].did = {}

\* C9: a getCDPSession call made after the active page changed to a different
\* page object returns a session distinct from the one returned before the
\* change, bound to the new page, and the earlier session was detached before
\* the new one was created.
C9_NewSessionAfterPageChange ==
    \A j \in DOMAIN cdpLog :
        (/\ j > 1
         /\ cdpLog[j].seen >= j - 1
         /\ cdpLog[j].page # cdpLog[j - 1].page)
        => /\ cdpLog[j].session # cdpLog[j - 1].session
           /\ sessions[cdpLog[j].session].page = cdpLog[j].page
           /\ "detach" \in cdpLog[j].did

\* C10: at every moment at most one debug session is live (created and
\* neither detached nor closed).
C10_AtMostOneLiveSession == Cardinality(LiveSessions) <= 1

\* C11: in every state either no debug session is cached, or the page the
\* cached session is bound to is the page the connection manager resolves as
\* active (pages[activePageIndex] of the cached context).
C11_CachedSessionOnActivePage ==
    cdpSession # 0 =>
        sessions[cdpSession].page = ActiveObject(context, activePageIndex, ctxPages)


\* A call arrives while the cached attach-mode handle has lost its browser.
CallWithLostHandle ==
    /\ received' = received + 1
    /\ browser.mode = "attach"
    /\ browser.gen \notin connected

\* The attach attempt of call id finds a browser with a context and tabs.
RetryAttached(id) ==
    /\ id \in DOMAIN tasks
    /\ tasks[id].pc = "attach"
    /\ nextGen' = nextGen + 1
    /\ nextGen \in hasContext'
    /\ ctxPages'[nextGen] # <<>>
    /\ (id \notin DOMAIN tasks' \/ tasks'[id] # tasks[id])

\* C12: a connectToBrowser call that finds the cached handle disconnected
\* does not return the stale handle, context or page: it clears them and
\* runs the acquisition strategy again from the attach attempt; when that
\* attempt succeeds the call returns the new context and one of its pages,
\* and no error is surfaced.
C12_LostHandleIsReacquired ==
    [][ /\ CallWithLostHandle =>
              /\ received \in DOMAIN tasks'
              /\ tasks'[received].pc = "attach"
              /\ browser' = NoHandle /\ context' = 0 /\ page' = 0
        /\ \A id \in ConnectIds :
              RetryAttached(id) =>
                  /\ id \in DOMAIN tasks'
                  /\ tasks'[id].pc = "connected"
                  /\ tasks'[id].ret.ctx = nextGen
                  /\ tasks'[id].ret.page \in Range(ctxPages'[nextGen])
                  /\ browser' = [gen |-> nextGen, mode |-> "attach"]
                  /\ context' = nextGen /\ page' = tasks'[id].ret.page
                  /\ output' = output ]_vars

\* The second call was made after the first one had attached to a browser
\* with two tabs (pages 1 and 2: a launched browser has one) and created its
\* session; that browser is gone, and the second call has returned from
\* connectToBrowser on the new connection.
C12_Witness ==
    \E id \in DOMAIN tasks :
        /\ tasks[id].pc = "connected"
        /\ tasks[id].seen > 0
        /\ tasks[id].ret = [ctx |-> 2, page |-> 3]
        /\ ctxPages[2] = <<3>>
        /\ 1 \notin connected
        /\ browser = [gen |-> 2, mode |-> "attach"]


\* C13: a connectToBrowser call made while a handle is cached and its
\* browser is still running reuses the handle: neither attach nor launch is
\* attempted, for the handle of attach mode and for the handle of launch
\* mode (the persistent context itself).
C13_RunningHandleIsReused ==
    [][ (received' = received + 1 /\ browser.gen \in connected) =>
            /\ browser' = browser
            /\ context' = context
            /\ received \in DOMAIN tasks' =>
                   tasks'[received].pc \notin {"attach", "attachCtx", "launch"} ]_vars


\* The launch of call id fails after no attach target and no system
\* executable were found.
LaunchFailsWithoutExecutable(id) ==
    /\ id \in DOMAIN tasks
    /\ tasks[id].pc = "launch"
    /\ ~tasks[id].exe
    /\ id \notin DOMAIN tasks'

\* C14: when no attach target is present and no browser executable can be
\* found or launched, connectToBrowser fails with the error whose message
\* lists the three remediation options, for every way in which the launch
\* can fail.
C14_ThreeOptionsOnEveryLaunchFailure ==
    [][ \A id \in ConnectIds :
            LaunchFailsWithoutExecutable(id) =>
                /\ Len(output') = Len(output) + 1
                /\ output'[Len(output')] =
                       Response(id, Thrown("No Chrome/Chromium browser found"), <<>>) ]_vars


Max(a, b) == IF a >= b THEN a ELSE b

\* C15: in every state where the context has at least one page,
\* 0 <= activePageIndex < pageCount.
C15_ActiveIndexInRange ==
    (context # 0 /\ ctxPages[context] # <<>>) =>
        activePageIndex \in 0..(Len(ctxPages[context]) - 1)

\* The close() awaited by call id settles, and the page it closed was the
\* last page of the context and the page at the active index.
ClosesLastActivePage(id) ==
    /\ id \in DOMAIN tasks
    /\ tasks[id].pc = "closing"
    /\ id \notin DOMAIN tasks'
    /\ activePageIndex = Len(ctxPages[tasks[id].b]) - 1
    /\ ctxPages[tasks[id].b][activePageIndex + 1] = tasks[id].target

\* C16: when browser_close_page closes the page at the active index, the call
\* succeeds and, if the closed page was the last one, activePageIndex is
\* max(0, pageCount - 1) when the call returns.
C16_ClampAfterClosingLastPage ==
    [][ \A id \in PageIds :
            ClosesLastActivePage(id) =>
                /\ output' = Append(output, Response(id, Result("ok"), <<>>))
                /\ activePageIndex' = Max(0, Len(ctxPages'[tasks[id].b]) - 1) ]_vars

\* browser_close_page without an index resumes after connectToBrowser() on a
\* context that has a page at the active index.
ClosesWithoutIndex(id) ==
    /\ id \in DOMAIN tasks
    /\ tasks[id].pc = "connected"
    /\ tasks[id].req = BrowserReq("browser_close_page", NoIndex)
    /\ (id \notin DOMAIN tasks' \/ tasks'[id] # tasks[id])
    /\ tasks[id].ret.ctx # 0
    /\ activePageIndex < Len(ctxPages[tasks[id].ret.ctx])

\* C17: browser_close_page without an index closes exactly the page at the
\* current activePageIndex (and then returns success).
C17_CloseWithoutIndexClosesActivePage ==
    [][ \A id \in PageIds :
            ClosesWithoutIndex(id) =>
                /\ id \in DOMAIN tasks'
                /\ tasks'[id].pc = "closing"
                /\ tasks'[id].target = ctxPages[tasks[id].ret.ctx][activePageIndex + 1] ]_vars


\* A termination signal is delivered in this step.
SignalHandled == proc'.signals = proc.signals + 1

\* A close() called by cleanup settles in this step.
CloseSettled == proc'.closing # proc.closing /\ proc'.attempts = proc.attempts

\* C21: on a termination signal the server calls close() on the cached
\* handle when there is one, and exits when that close settles, failed or
\* not; without a cached handle it exits without calling close().  After a
\* signal the process always exits.
C21_SignalClosesBrowserAndExits ==
    /\ [][ SignalHandled =>
              IF browser.gen # 0
              THEN /\ proc'.attempts = proc.attempts + 1
                   /\ browser.gen \in proc'.closing
                   /\ proc'.phase = "running"
              ELSE /\ proc'.attempts = proc.attempts
                   /\ proc'.closing = proc.closing
                   /\ proc'.phase = "exited" ]_vars
    /\ [][ CloseSettled => proc'.phase = "exited" ]_vars
    /\ (proc.signals > 0) ~> (proc.phase = "exited")

\* The process has exited after a close() of the cached handle that failed.
C21_Witness ==
    /\ proc.phase = "exited"
    /\ proc.attempts = 1
    /\ proc.failed = 1
    /\ browser.gen # 0


\* The attach attempt of call id settles in this step, with a handle
\* (a new connection) or without one.
AttachSettled(id) ==
    /\ id \in DOMAIN tasks
    /\ tasks[id].pc = "attach"
    /\ (id \notin DOMAIN tasks' \/ tasks'[id] # tasks[id])

\* C22: starting with no cached handle, connectToBrowser attempts the attach
\* first; a failed attach is never propagated to the caller, and a launch is
\* attempted if and only if the attach did not produce a handle.
C22_AttachFirstThenLaunch ==
    [][ /\ (received' = received + 1 /\ browser.gen = 0) =>
              (received \in DOMAIN tasks' /\ tasks'[received].pc = "attach")
        /\ \A id \in ConnectIds :
              AttachSettled(id) =>
                  /\ id \in DOMAIN tasks'
                  /\ tasks'[id].pc = "launch" <=> nextGen' = nextGen ]_vars


\* Call id returns from connectToBrowser in this step.
ConnectReturns(id) ==
    /\ id \in DOMAIN tasks'
    /\ tasks'[id].pc = "connected"
    /\ (id \notin DOMAIN tasks \/ tasks[id].pc # "connected")

\* C26: every successful connectToBrowser returns a handle, a context and a
\* page that are all defined, the page being context.pages()[activePageIndex]
\* for the clamped index; when the context had no page, exactly one page is
\* created and activePageIndex becomes 0.
C26_ReturnsActivePageOfContext ==
    [][ \A id \in ConnectIds :
            ConnectReturns(id) =>
                LET ret == tasks'[id].ret
                IN  /\ browser'.gen # 0 /\ ret.ctx # 0 /\ ret.page # 0
                    /\ activePageIndex' \in 0..(Len(ctxPages'[ret.ctx]) - 1)
                    /\ ret.page = ctxPages'[ret.ctx][activePageIndex' + 1]
                    /\ (id \in DOMAIN tasks /\ tasks[id].pc = "newPage") =>
                           /\ activePageIndex' = 0
                           /\ Len(ctxPages'[ret.ctx]) = 1 ]_vars


(***************************************************************************)
(* Properties of the registry and the dispatcher                           *)
(***************************************************************************)
RECURSIVE ModuleFileTools(_)
ModuleFileTools(files) ==
    IF files = <<>> THEN <<>>
    ELSE FileDefinitions(Head(files)) \o ModuleFileTools(Tail(files))

\* The tools a known module declares (none for any other name).
ModuleTools(m) == IF m \in KnownModules THEN Range(ModuleFileTools(MODULE_MAPPING[m])) ELSE {}

CoreTools == UNION {Range(CoreDefinitions(coreModules[i])) : i \in DOMAIN coreModules}

RECURSIVE PluginTools(_)
PluginTools(dir) ==
    IF dir = <<>> THEN <<>>
    ELSE (IF Head(dir).ok THEN Head(dir).defs ELSE <<>>) \o PluginTools(Tail(dir))

ToolCount(m) == Cardinality(ModuleTools(m))

RECURSIVE ToolCountSum(_)
ToolCountSum(S) ==
    IF S = {} THEN 0
    ELSE LET x == CHOOSE y \in S : TRUE IN ToolCount(x) + ToolCountSum(S \ {x})

ToolNames == Range(tools)

\* The manage-modules call this step started, if any.
StartedManage(action) ==
    /\ received' = received + 1
    /\ received \in DOMAIN tasks'
    /\ tasks'[received].req.name = ManageTool
    /\ tasks'[received].req.action = action

NewLines == SubSeq(output', Len(output) + 1, Len(output'))

\* C1: every load or unload call that changes the active-module set invokes
\* the change notification exactly once, after the rebuild has completed and
\* before the call's response is written.
C1_NotifyOncePerChange ==
    [][(/\ (StartedManage("load") \/ StartedManage("unload"))
        /\ activeModules' # activeModules)
       => /\ NewLines = <<Notification(received, tools')>>
          /\ ~updateRegistry(activeModules', pluginsDir).threw
          /\ tools' = updateRegistry(activeModules', pluginsDir).tools]_vars

\* C2: the catalog is exactly the core tools, browser_manage_modules, the
\* tools of every module in the active set and the plugin tools; its size is
\* the sum of their counts; it depends only on the active set.
C2_CatalogFromActiveSet ==
    LET active == Range(activeModules)
    IN  /\ ToolNames = CoreTools \cup {ManageTool}
                         \cup UNION {ModuleTools(m) : m \in active}
                         \cup Range(PluginTools(pluginsDir))
        /\ Len(tools) = Cardinality(CoreTools) + 1 + ToolCountSum(active)
                          + Len(PluginTools(pluginsDir))

\* C3: a load or unload call naming a module that is not in the known-module
\* table fails with Unknown module and changes nothing.
C3_UnknownModuleRejected ==
    [][(/\ (StartedManage("load") \/ StartedManage("unload"))
        /\ tasks'[received].req.module # ""
        /\ tasks'[received].req.module \notin KnownModules)
       => /\ tasks'[received].res = Thrown("Unknown module")
          /\ UNCHANGED <<registryVars, output>>]_vars

\* C4: loading a module that is already active, or unloading a known module
\* that is not active, returns a non-error informational result, leaves the
\* active set and the catalog unchanged, runs no rebuild and emits no
\* notification.
C4_NoOpWhenStateIsCurrent ==
    [][/\ (StartedManage("load") /\ tasks'[received].req.module \in Range(activeModules))
          => /\ tasks'[received].res = Result("already loaded")
             /\ UNCHANGED <<registryVars, output>>
       /\ (/\ StartedManage("unload")
           /\ tasks'[received].req.module \in KnownModules
           /\ tasks'[received].req.module \notin Range(activeModules))
          => /\ tasks'[received].res = Result("not loaded")
             /\ UNCHANGED <<registryVars, output>>]_vars

C4_Witness ==
    /\ \E i \in DOMAIN output : output[i].text = "already loaded" /\ output[i].body = "result"
    /\ \E id \in DOMAIN tasks : tasks[id].res = Result("not loaded")
    /\ activeModules # <<>>

Without(seq, S) == SelectSeq(seq, LAMBDA n : n \notin S)

Restrict(f, S) == [n \in DOMAIN f \ S |-> f[n]]

\* C5: a load adds exactly the module's tools and handlers, the unload that
\* follows removes exactly them, so that load-then-unload returns the tool
\* list and the handler map to what they were before the load.
C5_LoadThenUnloadRestores ==
    [][/\ (/\ StartedManage("load")
           /\ tasks'[received].req.module \in KnownModules
           /\ tasks'[received].req.module \notin Range(activeModules))
          => LET mt == ModuleTools(tasks'[received].req.module)
             IN  /\ mt \subseteq Range(tools')
                 /\ Without(tools', mt) = tools
                 /\ mt \subseteq DOMAIN handlers'
                 /\ Restrict(handlers', mt) = handlers
       /\ (/\ StartedManage("unload")
           /\ tasks'[received].req.module \in KnownModules
           /\ tasks'[received].req.module \in Range(activeModules))
          => LET mt == ModuleTools(tasks'[received].req.module)
             IN  /\ tools' = Without(tools, mt)
                 /\ handlers' = Restrict(handlers, mt)]_vars

\* C18: a call of a tool name with no registered handler, like an exception
\* thrown inside a handler, ends in a result with isError true; the registry
\* and the connection state are not altered by the failed call.
C18_UnknownToolIsAnErrorResult ==
    [][ (/\ received' = received + 1
         /\ received \in DOMAIN tasks'
         /\ tasks'[received].req.method = "tools/call"
         /\ tasks'[received].req.name \notin DOMAIN handlers)
        => /\ tasks'[received].pc = "respond"
           /\ tasks'[received].res.body = "result"
           /\ tasks'[received].res.isError
           /\ UNCHANGED <<registryVars, browserVars>> ]_vars

\* C19: the response to every initialize request declares the capability
\* tools.listChanged (true).
C19_InitializeDeclaresListChanged ==
    \A i \in DOMAIN output :
        (output[i].kind = "response" /\ output[i].text = "initialize")
            => "listChanged" \in output[i].capabilities

\* The line handed to handleLine in this step is one JSON.parse rejects.
UnparsableLineHandled ==
    /\ Len(lines') = Len(lines) + 1
    /\ lines'[Len(lines')] = "#unparsable"

\* The methods that are requests: a response with the id of the line is due.
RequestMethods == {"initialize", "tools/list", "tools/call", "resources/list"}

Answered(id) ==
    \E i \in DOMAIN output : output[i].kind = "response" /\ output[i].id = id

\* C20: an unparsable input line produces exactly one error response and
\* changes nothing else; every well-formed request received after it is
\* still handled and answered.
C20_UnparsableLineDoesNotStopTheServer ==
    /\ [][ UnparsableLineHandled =>
              /\ output' = Append(output, ErrorResponse(Null, "parse error"))
              /\ UNCHANGED <<registryVars, tasks, allBrowserVars>> ]_vars
    /\ \A k \in 1..MaxRequests :
          [](( /\ Len(lines) >= k
               /\ lines[k] \in RequestMethods
               /\ \E j \in 1..(k - 1) : lines[j] = "#unparsable" )
             => <>Answered(k - 1))

\* A tools/call received after an unparsable line has been answered.
C20_Witness ==
    \E k \in 2..Len(lines) :
        /\ lines[k - 1] = "#unparsable"
        /\ lines[k] = "tools/call"
        /\ output[Len(output)].id = k - 1
        /\ output[Len(output) - 1] = ErrorResponse(Null, "parse error")

\* C23: for a fixed active-module set, updateRegistry run once or any
\* number of times, from any tool list and handler map, yields the same tool
\* list and the same handler map: the ones built from an empty registry.
C23_RebuildIndependentOfPriorState ==
    rebuilds >= 1 =>
        /\ tools = updateRegistry(activeModules, pluginsDir).tools
        /\ handlers = updateRegistry(activeModules, pluginsDir).handlers

\* Two rebuilds have run on a registry that held stale entries.
C23_Witness ==
    /\ rebuilds = 2
    /\ activeModules = <<"media", "extraction">>
    /\ "stale_tool" \notin Range(tools)
    /\ Len(tools) = Len(updateRegistry(<<>>, pluginsDir).tools) + 6

\* The core set of the README: navigation, the interaction primitive, the
\* two read/inspect primitives and the documentation lookup.
CoreToolNames ==
    {"browser_navigate", "browser_action", "browser_screenshot", "browser_evaluate",
     "browser_docs"}

C25_NoDuplicateToolNames ==
    rebuilds >= 1 =>
        \A i, j \in DOMAIN tools : i # j => tools[i] # tools[j]

\* C6: handling of an input line never begins while an earlier tools/call
\* request is still awaiting its asynchronous result.
C6_OneRequestAtATime == [][received' = received + 1 => DOMAIN tasks = {}]_vars

\* C7: responses are written in the order in which their requests were received.
C7_ResponsesInArrivalOrder ==
    \A i, j \in DOMAIN output :
        (/\ i < j
         /\ output[i].kind = "response" /\ output[j].kind = "response"
         /\ output[i].id # Null /\ output[j].id # Null)
        => output[i].id < output[j].id


\* A step of resetCDPSession: the cache loses its session or its bound page.
ResetStep ==
    \/ cdpSession # 0 /\ cdpSession' = 0
    \/ currentPage # 0 /\ currentPage' = 0

\* getCDPSession of call id resumes with the page it resolved and finds the
\* cache cleared.
ResumesOnClearedCache(id) ==
    /\ id \in DOMAIN tasks
    /\ tasks[id].pc = "connected"
    /\ tasks[id].req.name = CdpTool
    /\ cdpSession = 0
    /\ id \in DOMAIN tasks'
    /\ tasks'[id] # tasks[id]

\* C27: resetCDPSession clears the cached session and its bound page and
\* calls detach on nothing (no session changes status, no call is touched);
\* the getCDPSession that then finds the cache cleared goes straight to
\* creating a session on its page: it starts no detach, and no session is
\* detached by that step.
C27_ResetClearsWithoutDetach ==
    [][/\ ResetStep =>
            /\ cdpSession' = 0
            /\ currentPage' = 0
            /\ UNCHANGED <<sessions, tasks, output>>
       /\ \A id \in SessionIds :
            ResumesOnClearedCache(id) =>
                /\ tasks'[id].pc = "create"
                /\ "detach" \notin tasks'[id].did
                /\ currentPage' = tasks[id].ret.page
                /\ UNCHANGED sessions]_vars

\* After a reset a call created session 2 on page 1 while session 1, never
\* detached, is still live.
C27_Witness ==
    /\ Len(cdpLog) >= 2
    /\ cdpLog[Len(cdpLog)].did = {"create"}
    /\ cdpLog[Len(cdpLog)].session = 2
    /\ cdpSession = 2
    /\ sessions[1].status = "live"


\* The detach that call id awaits is rejected: the stale session is no longer
\* live (its page or its browser is gone, or another call detached it).
DetachRejected(id) ==
    /\ id \in DOMAIN tasks
    /\ tasks[id].pc = "detach"
    /\ sessions[tasks[id].old].status # "live"
    /\ (id \notin DOMAIN tasks' \/ tasks'[id] # tasks[id])

\* newCDPSession of call id, which attempted a detach before, resolves.
CreatedAfterDetach(id) ==
    /\ id \in DOMAIN tasks
    /\ tasks[id].pc = "create"
    /\ "detach" \in tasks[id].did
    /\ id \notin DOMAIN tasks'
    /\ ~output'[Len(output')].isError

\* C28: a rejected detach of the stale session is not thrown to the caller
\* of getCDPSession: the call answers nothing yet, binds the cache to its
\* page and goes on to newCDPSession; the session that call resolves to is
\* a new one on the call's page, is cached, and is the one returned.
C28_DetachFailureIsNotThrown ==
    [][\A id \in SessionIds :
        /\ DetachRejected(id) =>
              /\ id \in DOMAIN tasks'
              /\ tasks'[id].pc = "create"
              /\ tasks'[id].res = tasks[id].res
              /\ currentPage' = tasks[id].ret.page
              /\ output' = output
        /\ CreatedAfterDetach(id) =>
              /\ cdpSession' \notin DOMAIN sessions
              /\ sessions'[cdpSession'] = [page |-> tasks[id].ret.page, status |-> "live"]
              /\ cdpLog' = Append(cdpLog, cdpLog'[Len(cdpLog')])
              /\ cdpLog'[Len(cdpLog')].id = id
              /\ cdpLog'[Len(cdpLog')].session = cdpSession'
              /\ output'[Len(output')].id = id]_vars

\* Session 1 was closed with its browser; the call that then found it cached
\* had its detach rejected and returned the new session 2.
C28_Witness ==
    /\ DOMAIN sessions = {1, 2}
    /\ sessions[1].status = "closed"
    /\ cdpLog[Len(cdpLog)].did = {"detach", "create"}
    /\ cdpLog[Len(cdpLog)].session = 2
    /\ cdpSession = 2
    /\ sessions[2].status = "live"


InRange(i, n) == 0 <= i /\ i < n

\* browser_switch_page of call id resumes with the context connectToBrowser
\* returned and compares its index with the page count.
SwitchResumes(id) ==
    /\ id \in DOMAIN tasks
    /\ tasks[id].pc = "connected"
    /\ tasks[id].req.name = "browser_switch_page"
    /\ tasks[id].ret.ctx # 0
    /\ (id \notin DOMAIN tasks' \/ tasks'[id] # tasks[id])

\* The bringToFront that call id awaits settles.
FrontSettles(id) ==
    /\ id \in DOMAIN tasks
    /\ tasks[id].pc = "fronting"
    /\ id \notin DOMAIN tasks'

\* From the range check on: an index outside the range fails the call with
\* activePageIndex as it was; an index inside the range becomes
\* activePageIndex; and when bringToFront settles, rejected or not, the
\* index stays and the call answers without error.
SwitchFromRangeCheck(id) ==
    /\ SwitchResumes(id) =>
         LET t == tasks[id]
             n == Len(ctxPages[t.ret.ctx])
         IN  IF InRange(t.req.index, n)
             THEN /\ activePageIndex' = t.req.index
                  /\ id \in DOMAIN tasks'
                  /\ tasks'[id].pc = "fronting"
                  /\ output' = output
             ELSE /\ activePageIndex' = activePageIndex
                  /\ id \notin DOMAIN tasks'
                  /\ output' = Append(output, Response(id, Thrown("Invalid page index"), <<>>))
    /\ FrontSettles(id) =>
         /\ activePageIndex' = activePageIndex
         /\ output' = Append(output, Response(id, tasks[id].res, <<>>))
         /\ ~tasks[id].res.isError

\* connectToBrowser resolves for the browser_switch_page call id, whose
\* index is outside the page range of the context it returns.
ConnectResolvesForBadIndex(id) ==
    /\ id \in DOMAIN tasks'
    /\ tasks'[id].pc = "connected"
    /\ tasks'[id].req.name = "browser_switch_page"
    /\ (id \notin DOMAIN tasks \/ tasks[id].pc # "connected")
    /\ tasks'[id].ret.ctx # 0
    /\ ~InRange(tasks'[id].req.index, Len(ctxPages'[tasks'[id].ret.ctx]))

\* C29: browser_switch_page with an index outside [0, pageCount) fails and
\* leaves activePageIndex unchanged, in every step of the call; with an index
\* inside the range it sets activePageIndex to that index, and a failure of
\* bringToFront does not undo the switch or fail the call.
C29_SwitchPageChecksRange ==
    [][\A id \in SwitchIds :
        /\ SwitchFromRangeCheck(id)
        /\ ConnectResolvesForBadIndex(id) => activePageIndex' = activePageIndex]_vars

\* C29 (amended): from its range check on, browser_switch_page with an index
\* outside [0, pageCount) fails and leaves activePageIndex as connectToBrowser
\* left it; with an index inside the range it sets activePageIndex to that
\* index, and a failure of bringToFront does not undo the switch or fail the
\* call.
C29_SwitchPageChecksRangeAfterConnect ==
    [][\A id \in SwitchIds : SwitchFromRangeCheck(id)]_vars

\* A call switched to index 1 and awaits bringToFront on a page that went
\* away with its browser; an earlier call with an index outside the range
\* was answered with the error.
C29_Witness ==
    /\ \E id \in DOMAIN tasks :
         /\ tasks[id].pc = "fronting"
         /\ tasks[id].req.index = 1
         /\ ~PageAlive(tasks[id].target)
    /\ activePageIndex = 1
    /\ output[Len(output)].isError
    /\ output[Len(output)].text = "Invalid page index"


\* The line handled by this step is a browser_manage_modules call with
\* action list.
ListCalled ==
    /\ received' = received + 1
    /\ received \in DOMAIN tasks'
    /\ tasks'[received].req.name = ManageTool
    /\ tasks'[received].req.action = "list"

\* C30: the list action of browser_manage_modules reports every known
\* module, marks a module as loaded exactly when it is in the active set, and
\* changes nothing: the active set, the tool list and the handler map are
\* unchanged and no notification is emitted.
C30_ListReportsAndChangesNothing ==
    [][ListCalled =>
        LET res == tasks'[received].res
        IN  /\ ~res.isError
            /\ res.body = "result"
            /\ DOMAIN res.report = KnownModules
            /\ \A m \in KnownModules :
                 res.report[m] = "Loaded" <=> m \in Range(activeModules)
            /\ UNCHANGED <<activeModules, tools, handlers, rebuilds>>
            /\ output' = output]_vars

\* A list call was answered after extraction was loaded: it reports
\* extraction loaded and media unloaded.
C30_Witness ==
    \E i \in DOMAIN output :
        /\ output[i].kind = "response"
        /\ output[i].text = "list"
        /\ output[i].report["extraction"] = "Loaded"
        /\ output[i].report["media"] = "Unloaded"


\* The close() awaited by call id settles on a page of the cached context
\* whose index is lower than the active index.
ClosesBelowActive(id) ==
    /\ id \in DOMAIN tasks
    /\ tasks[id].pc = "closing"
    /\ id \notin DOMAIN tasks'
    /\ tasks[id].b = context
    /\ activePageIndex < Len(ctxPages[context])
    /\ \E i \in 1..activePageIndex : ctxPages[context][i] = tasks[id].target

\* C31: closing a page whose index is lower than the active index keeps the
\* same page object active: the page the next connectToBrowser resolves
\* after the close is the page that was active before it.
C31_ClosingLowerPageKeepsActivePage ==
    [][\A id \in PageIds :
        ClosesBelowActive(id) =>
            ActiveObject(context', activePageIndex', ctxPages')
                = ActiveObject(context, activePageIndex, ctxPages)]_vars


\* getCDPSession of call id returns in this step, after some earlier call
\* was answered with the failure of newCDPSession.
ReturnsAfterFailedCreate(id) ==
    /\ id \in DOMAIN tasks
    /\ tasks[id].req.name = CdpTool
    /\ tasks[id].pc \in {"connected", "create"}
    /\ Len(cdpLog') = Len(cdpLog) + 1
    /\ cdpLog'[Len(cdpLog')].id = id
    /\ \E i \in DOMAIN output :
         output[i].isError /\ output[i].text = "newCDPSession failed"

\* C32: if creating the new debug session fails after a page change, no
\* session is left cached for the new page: a later getCDPSession returns a
\* session bound to the page it resolved, never the earlier, already
\* detached session that was bound to the previous page.
C32_NoStaleSessionAfterFailedCreate ==
    [][\A id \in CallIds :
        ReturnsAfterFailedCreate(id) =>
            LET e == cdpLog'[Len(cdpLog')]
            IN  /\ sessions'[e.session].page = e.page
                /\ sessions'[e.session].status # "detached"]_vars


\* The calls that are inside an attach/launch sequence of connectToBrowser.
Acquiring == {i \in DOMAIN tasks : tasks[i].pc \in {"attach", "attachCtx", "launch"}}

\* C33: when tool calls overlap while no handle is cached, at most one
\* attach/launch sequence runs and the calls use the same handle: no browser
\* the server has connected to or launched is left outside the cache
\* (overwritten or unowned).
C33_OneAcquisitionAtATime ==
    /\ Cardinality(Acquiring) <= 1
    /\ \A g \in connected : g = browser.gen


\* getCDPSession of call id returns in this step, on a handle acquired after
\* the first connection was found lost.
ReturnsAfterReconnect(id) ==
    /\ id \in DOMAIN tasks
    /\ tasks[id].req.name = CdpTool
    /\ Len(cdpLog') = Len(cdpLog) + 1
    /\ cdpLog'[Len(cdpLog')].id = id
    /\ browser.gen > 1
    /\ browser.gen \in connected

\* C34: after a disconnection is detected and a new browser is acquired,
\* getCDPSession never returns a session that was created on the old
\* connection: the session it returns is bound to a page of the new
\* connection.
C34_NoSessionOfOldConnection ==
    [][\A id \in CallIds :
        ReturnsAfterReconnect(id) =>
            sessions'[cdpLog'[Len(cdpLog')].session].page
                \in Range(ctxPages[browser.gen])]_vars


\* connectToBrowser of call id rejects in this step: the call is answered
\* with the error while it was still inside connectToBrowser.
ConnectRejects(id) ==
    /\ id \in DOMAIN tasks
    /\ tasks[id].pc \in {"attach", "attachCtx", "launch", "ctx", "newPage"}
    /\ id \notin DOMAIN tasks'
    /\ output'[Len(output')].id = id
    /\ output'[Len(output')].isError

\* C35: if connectToBrowser fails, no handle, context or page remains
\* cached, so the next call starts again from the attach attempt; and
\* whenever a handle is cached after a call, a context is cached with it.
C35_NothingCachedAfterFailedConnect ==
    [][/\ \A id \in ConnectIds :
            ConnectRejects(id) => browser'.gen = 0 /\ context' = 0 /\ page' = 0
       /\ \A id \in ConnectIds :
            (id \in DOMAIN tasks /\ id \notin DOMAIN tasks' /\ browser'.gen # 0)
                => context' # 0]_vars


\* C36: after every rebuild the set of tool names in the tool list equals
\* the set of keys of the handler map: every listed tool can be invoked and
\* every registered handler is listed; no handler of an unloaded module
\* remains.
C36_ToolNamesAreHandlerKeys == Range(tools) = DOMAIN handlers

\* media was loaded and unloaded again while extraction stays loaded: the
\* handlers of media are gone, those of extraction are registered.
C36_Witness ==
    /\ \E i \in DOMAIN output : output[i].kind = "response" /\ output[i].text = "unloaded"
    /\ "extraction" \in Range(activeModules)
    /\ "media" \notin Range(activeModules)
    /\ "browser_get_text" \in DOMAIN handlers
    /\ "browser_control_media" \notin DOMAIN handlers


\* The response lines of tools/call requests (the id of a request is the
\* position of its line).
ToolCallResponses ==
    {i \in DOMAIN output : /\ output[i].kind = "response"
                            /\ output[i].id # Null
                            /\ lines[output[i].id + 1] = "tools/call"}

\* C37: every tools/call request produces exactly one response line, and
\* that response contains either a result or an error, for every tool name
\* and every argument value: no request is answered twice, and no response
\* line lacks both members.
C37_OneResponseWithResultOrError ==
    /\ \A i, j \in ToolCallResponses : output[i].id = output[j].id => i = j
    /\ \A i \in ToolCallResponses : output[i].body \in {"result", "error"}


\* The request answered by a step: the line handed to handleLine in it, or
\* the suspended call that resumes in it.
AnsweredRequest ==
    IF received' # received THEN received
    ELSE CHOOSE id \in DOMAIN tasks : id \notin DOMAIN tasks'

WritesResponse ==
    /\ Len(output') = Len(output) + 1
    /\ output'[Len(output')].kind = "response"
    /\ \/ received' # received /\ lines'[Len(lines')] # "#unparsable"
       \/ received' = received /\ \E id \in DOMAIN tasks : id \notin DOMAIN tasks'

\* C38: every response carries the id of the request that produced it, for
\* every request id including 0, on success and error paths alike.
C38_ResponseCarriesRequestId ==
    [][WritesResponse => output'[Len(output')].id = AnsweredRequest]_vars


\* C39: a load call that reports success for module M leaves M's declared
\* tools in the catalog, and a module is never in the active set (reported
\* as loaded) while its tools are missing from the catalog.
C39_LoadedModuleHasItsTools ==
    [][/\ (/\ StartedManage("load")
           /\ tasks'[received].res \in {Result("loaded"), Result("already loaded")})
          => ModuleTools(tasks'[received].req.module) \subseteq Range(tools')
       /\ \A m \in Range(activeModules') \cap KnownModules :
             ModuleTools(m) \subseteq Range(tools')]_vars
====
